---- MODULE Spec2Model ----
(***************************************************************************)
(* Timing kernel of the NDS emulator: the event scheduler                  *)
(* (core/src/hw/scheduler.rs), the sound unit's heartbeat and channel      *)
(* registers (core/src/hw/spu/mod.rs) and the DMA executor (HW::run_dma).  *)
(***************************************************************************)
EXTENDS Integers, Naturals, Sequences, FiniteSets, TLC

(***************************************************************************)
(* Bounds of the model.                                                    *)
(***************************************************************************)
\* handle_events is only called while cycle + arm7_cycles <= MaxCycle
MaxCycle == 9
\* the largest arm7_cycles passed to one handle_events call
MaxAdvance == 2
\* the largest latched DMA word count the DMA specification draws
MaxCount == 2
\* the number of register writes the CPU makes in one run
MaxWrites == 2
\* NDS::CLOCK_RATE / audio.sample_rate(), scaled down
ClocksPerSample == 3
\* cycles of one scanline, and the offset of HBlank inside it, scaled down
LinePeriod == 4
HBlankOffset == 2
\* scanlines per frame and the first line of vertical blank, scaled down
NumLines == 3
VBlankLine == 2

(***************************************************************************)
(* Events (enum Event).  Every event is a record of its discriminant and   *)
(* two small integer payload fields, compared by value.                    *)
(***************************************************************************)
Ev(kind, a, b) == [kind |-> kind, a |-> a, b |-> b]

GenerateAudioSample == Ev("GenerateAudioSample", 0, 0)
StartNextLine == Ev("StartNextLine", 0, 0)
HBlank == Ev("HBlank", 0, 0)
\* ChannelSpec::Base(num): a = 0; ChannelSpec::PSG(num): a = 1; Noise: a = 2
StepAudioChannel(spec) == Ev("StepAudioChannel", spec[1], spec[2])
\* Event::DMA(is_nds9, num): a = 1 for the ARM9 controller
EvDMA(ch) == Ev("DMA", ch[1], ch[2])
NoEvent == Ev("none", 0, 0)

\* the audio channels and DMA channels the model instantiates
ChannelSpecs == {<<0, 0>>, <<0, 1>>}
DmaChannels == {<<1, 0>>, <<0, 1>>}
\* dma9 channels before dma7 channels, by number: the order of run_dmas
DmaOrder == <<(<<1, 0>>), (<<0, 1>>)>>

(***************************************************************************)
(* The event queue: PriorityQueue<EventWrapper, Reverse<usize>>, a set of  *)
(* (event, due cycle) entries keyed by the event's value.                  *)
(***************************************************************************)
Entry(e, due) == [ev |-> e, due |-> due]

Pending(q, e) == \E x \in q : x.ev = e

DueOf(q, e) == (CHOOSE x \in q : x.ev = e).due

\* EventWrapper's PartialEq: equality of the wrapped events, kind and payload
WrapperEq(e1, e2) == e1 = e2

\* faulty push: the equal item already queued is kept beside the new one
push_keep(q, e, prio) == q \cup {Entry(e, prio)}

\* PriorityQueue::push: an equal item already queued has its priority replaced
push(q, e, prio) == {x \in q : ~WrapperEq(x.ev, e)} \cup {Entry(e, prio)}

\* Scheduler::schedule
schedule(q, now, e, delay) == push(q, e, now + delay)

\* Scheduler::run_now
run_now(q, now, e) == schedule(q, now, e, 0)

\* faulty remove: the wrapper built for the lookup matches nothing
remove_nothing(q, e) == q

\* Scheduler::remove
remove(q, e) == {x \in q : ~WrapperEq(x.ev, e)}

\* the entries PriorityQueue::peek may return: highest priority under
\* Reverse<usize> is the smallest due cycle; ties are broken by the heap
Top(q) == {x \in q : \A y \in q : x.due <= y.due}

\* faulty tests: the top entry is popped whatever its due cycle; an entry due
\* exactly now is left in the queue
IsDueAlways(now, due) == TRUE
IsDueStrict(now, due) == due < now

\* Scheduler::get_next_event's test Reverse(self.cycle) <= *cycle
IsDue(now, due) == due <= now

(***************************************************************************)
(* 32-bit addresses (u32) are kept as two 16-bit halves, so that           *)
(* wrapping_add and wrapping_sub wrap at 2^32.                             *)
(***************************************************************************)
Half == 65536

U32(hi, lo) == [hi |-> hi, lo |-> lo]

\* u32::wrapping_add(k), 0 <= k < 2^16
wrapping_add(x, k) ==
    U32((x.hi + ((x.lo + k) \div Half)) % Half, (x.lo + k) % Half)

\* u32::wrapping_sub(k), 0 <= k < 2^16
wrapping_sub(x, k) ==
    IF x.lo >= k THEN U32(x.hi, x.lo - k)
    ELSE U32((x.hi + Half - 1) % Half, x.lo + Half - k)

\* x & !addr_mask for addr_mask = 2^n - 1 (0x1 or 0x3)
AlignDown(x, addr_mask) == U32(x.hi, x.lo - (x.lo % (addr_mask + 1)))

(***************************************************************************)
(* Sound channels (struct Channel<T>).                                     *)
(***************************************************************************)
None == <<>>
Some(v) == <<v>>

\* RepeatMode and Format as the register encodes them
Manual == 0
Loop == 1
OneShot == 2
PCM8 == 0
PCM16 == 1
ADPCM == 2
PSGNoise == 3

\* Channel::new
NewChannel ==
    [busy |-> FALSE, repeat_mode |-> Manual, format |-> PCM8,
     src_addr |-> 0, timer_val |-> 0, len |-> 0,
     addr |-> 0, num_bytes_left |-> 0, sample |-> 0, last_sample |-> None]

\* std::mem::size_of::<M>() of the unit a format reads
UnitSize(format) == IF format = PCM8 THEN 1 ELSE IF format = PCM16 THEN 2 ELSE 4

\* faulty delay: the step is re-armed for the current cycle
TimerDelayZero(timer_val) == 0

\* (-(timer_val as i16) as u16) as usize
TimerDelay(timer_val) == (Half - timer_val) % Half

\* -(timer_val as i16): the negation of i16::MIN overflows, which panics in
\* a build with overflow checks and wraps to 0x8000 in a build without
NegOverflows(timer_val) == timer_val = 32768

\* Channel::schedule: the queue after the call
ChannelSchedule(q, now, c, spec) ==
    IF c.timer_val # 0
    THEN schedule(q, now, StepAudioChannel(spec), TimerDelay(c.timer_val))
    ELSE q

\* faulty exhaustion: Manual mode rewinds the cursor as Loop mode does
next_addr_rewind(c, size) ==
    IF c.num_bytes_left # 0
    THEN LET left == c.num_bytes_left - size
             stepped == [c EXCEPT !.addr = c.addr + size, !.num_bytes_left = left]
         IN  IF left = 0
             THEN [chan |->
                     IF c.repeat_mode \in {Manual, Loop}
                     THEN [stepped EXCEPT !.addr = c.src_addr,
                                          !.num_bytes_left = c.len * 4,
                                          !.last_sample = Some(0),
                                          !.busy = c.repeat_mode = Loop]
                     ELSE [stepped EXCEPT !.last_sample = Some(c.sample),
                                          !.busy = FALSE],
                   ret |-> Some(c.addr), underflow |-> FALSE]
             ELSE [chan |-> stepped, ret |-> Some(c.addr),
                   underflow |-> c.num_bytes_left > 0 /\ left < 0]
    ELSE [chan |-> c, ret |-> None, underflow |-> FALSE]

\* faulty exhaustion: Loop mode stops the channel instead of rewinding it
next_addr_stop(c, size) ==
    IF c.num_bytes_left # 0
    THEN LET left == c.num_bytes_left - size
             stepped == [c EXCEPT !.addr = c.addr + size, !.num_bytes_left = left]
         IN  IF left = 0
             THEN [chan |->
                     IF c.repeat_mode \in {Manual, Loop}
                     THEN [stepped EXCEPT !.last_sample = Some(0), !.busy = FALSE]
                     ELSE [stepped EXCEPT !.last_sample = Some(c.sample),
                                          !.busy = FALSE],
                   ret |-> Some(c.addr), underflow |-> FALSE]
             ELSE [chan |-> stepped, ret |-> Some(c.addr),
                   underflow |-> c.num_bytes_left > 0 /\ left < 0]
    ELSE [chan |-> c, ret |-> None, underflow |-> FALSE]

\* Channel::next_addr::<M>(): the channel after the call and Option<u32>.
\* num_bytes_left is a usize: a value below 0 stands for that value + 2^64,
\* which `-=` leaves when it wraps; underflow tells that this call wrapped.
next_addr(c, size) ==
    IF c.num_bytes_left # 0
    THEN LET left == c.num_bytes_left - size
             stepped == [c EXCEPT !.addr = c.addr + size, !.num_bytes_left = left]
         IN  IF left = 0
             THEN [chan |->
                     IF c.repeat_mode = Manual
                     THEN [stepped EXCEPT !.last_sample = Some(0), !.busy = FALSE]
                     ELSE IF c.repeat_mode = Loop
                     THEN [stepped EXCEPT !.addr = c.src_addr,
                                          !.num_bytes_left = c.len * 4,
                                          !.last_sample = Some(0), !.busy = TRUE]
                     ELSE [stepped EXCEPT !.last_sample = Some(c.sample),
                                          !.busy = FALSE],
                   ret |-> Some(c.addr), underflow |-> FALSE]
             ELSE [chan |-> stepped, ret |-> Some(c.addr),
                   underflow |-> c.num_bytes_left > 0 /\ left < 0]
    ELSE [chan |-> c, ret |-> None, underflow |-> FALSE]

\* `as i16` of a 16-bit pattern
AsI16(u) == IF u >= 32768 THEN u - Half ELSE u

\* Channel::set_sample::<M>()
set_sample(c, size, unit) ==
    [c EXCEPT !.sample = AsI16(IF size = 1 THEN (unit * 256) % Half ELSE unit)]

(***************************************************************************)
(* DMA channels (struct DMAChannel, consumed by HW::run_dma).              *)
(***************************************************************************)
\* the channel's registers and latches; `active` is its entry in the owning
\* controller's channel table (DMAController::disable clears it)
DmaChannel(sad, dad, count, sctl, dctl, t32, irq, timing, repeat) ==
    [sad |-> sad, dad |-> dad, count |-> count,
     sad_latch |-> sad, dad_latch |-> dad, count_latch |-> count,
     src_addr_ctrl |-> sctl, dest_addr_ctrl |-> dctl, transfer_32 |-> t32,
     irq |-> irq, start_timing |-> timing, repeat |-> repeat,
     enable |-> FALSE, active |-> FALSE]

\* access_time_fn(self, cycle_type, addr): one wait-state lookup
AccessTime(cycle_type, addr) == IF cycle_type = "N" THEN 2 ELSE 1

\* faulty source step: mode 0 leaves the address where it is
SrcAdvanceStuck(src_addr, src_addr_ctrl, addr_change) ==
    IF src_addr_ctrl = 1 THEN wrapping_sub(src_addr, addr_change) ELSE src_addr

\* src_addr = match src_addr_ctrl { ... }; mode 3 panics
SrcAdvance(src_addr, src_addr_ctrl, addr_change) ==
    IF src_addr_ctrl = 0 THEN wrapping_add(src_addr, addr_change)
    ELSE IF src_addr_ctrl = 1 THEN wrapping_sub(src_addr, addr_change)
    ELSE src_addr

\* dest_addr = match dest_addr_ctrl { ... }
DestAdvance(dest_addr, dest_addr_ctrl, addr_change) ==
    IF dest_addr_ctrl \in {0, 3} THEN wrapping_add(dest_addr, addr_change)
    ELSE IF dest_addr_ctrl = 1 THEN wrapping_sub(dest_addr, addr_change)
    ELSE dest_addr

\* read_fn(self, addr): the unit memory holds at addr; mem lists the units
\* this run has written, every other address holds its unit of before the run
read_fn(mem, addr) ==
    IF addr \in DOMAIN mem THEN mem[addr] ELSE [unit_at |-> addr]

\* write_fn(self, addr, value)
write_fn(mem, addr, value) ==
    [a \in DOMAIN mem \cup {addr} |-> IF a = addr THEN value ELSE mem[a]]

\* faulty iteration: the unit is written before the source is read, so the
\* destination receives what it already held
TransferUnitWriteFirst(st, sctl, dctl, addr_change) ==
    LET cycle_type == IF st.first THEN "N" ELSE "S"
        value == read_fn(st.mem, st.dest_addr)
    IN
    [src_addr |-> SrcAdvance(st.src_addr, sctl, addr_change),
     dest_addr |-> DestAdvance(st.dest_addr, dctl, addr_change),
     first |-> FALSE,
     cycles_passed |-> st.cycles_passed + AccessTime(cycle_type, st.src_addr)
                                        + AccessTime(cycle_type, st.dest_addr),
     mem |-> write_fn(st.mem, st.dest_addr, value),
     log |-> st.log \o <<[op |-> "write", addr |-> st.dest_addr, value |-> value],
                         [op |-> "read", addr |-> st.src_addr,
                          value |-> read_fn(st.mem, st.src_addr)]>>,
     panicked |-> sctl = 3]

\* faulty iteration: every access is timed as sequential
TransferUnitAllSequential(st, sctl, dctl, addr_change) ==
    LET value == read_fn(st.mem, st.src_addr) IN
    [src_addr |-> SrcAdvance(st.src_addr, sctl, addr_change),
     dest_addr |-> DestAdvance(st.dest_addr, dctl, addr_change),
     first |-> FALSE,
     cycles_passed |-> st.cycles_passed + AccessTime("S", st.src_addr)
                                        + AccessTime("S", st.dest_addr),
     mem |-> write_fn(st.mem, st.dest_addr, value),
     log |-> st.log \o <<[op |-> "read", addr |-> st.src_addr, value |-> value],
                         [op |-> "write", addr |-> st.dest_addr, value |-> value]>>,
     panicked |-> sctl = 3]

\* one iteration of `for _ in 0..count`
TransferUnit(st, sctl, dctl, addr_change) ==
    LET cycle_type == IF st.first THEN "N" ELSE "S"
        value == read_fn(st.mem, st.src_addr)
    IN
    [src_addr |-> SrcAdvance(st.src_addr, sctl, addr_change),
     dest_addr |-> DestAdvance(st.dest_addr, dctl, addr_change),
     first |-> FALSE,
     cycles_passed |-> st.cycles_passed + AccessTime(cycle_type, st.src_addr)
                                        + AccessTime(cycle_type, st.dest_addr),
     mem |-> write_fn(st.mem, st.dest_addr, value),
     log |-> st.log \o <<[op |-> "read", addr |-> st.src_addr, value |-> value],
                         [op |-> "write", addr |-> st.dest_addr, value |-> value]>>,
     panicked |-> sctl = 3]

RECURSIVE TransferLoop(_, _, _, _, _)
TransferLoop(st, n, sctl, dctl, addr_change) ==
    IF n = 0 \/ st.panicked THEN st
    ELSE CHOOSE done \in {TransferLoop(next, n - 1, sctl, dctl, addr_change) :
                             next \in {TransferUnit(st, sctl, dctl, addr_change)}} : TRUE

\* faulty eligibility: the start timing is not looked at
ReArmRepeat(c) == c.repeat

\* the eligibility written to channel.cnt.enable before the transfer loop
ReArm(c) == c.start_timing # "Immediate" /\ c.repeat

\* faulty write-back: mode 3 keeps the advanced address
DadWriteBackAdvanced(dest_addr, dest_addr_ctrl, original_dest_addr) == dest_addr

\* the latch written back after the loop
DadWriteBack(dest_addr, dest_addr_ctrl, original_dest_addr) ==
    IF dest_addr_ctrl = 3 THEN original_dest_addr ELSE dest_addr

\* the DMA-complete request bit of channel num
DmaIrq(num) == IF num = 0 THEN "DMA0" ELSE IF num = 1 THEN "DMA1"
               ELSE IF num = 2 THEN "DMA2" ELSE "DMA3"

\* faulty request: only the context that owns the channel is notified
RaiseDmaIrqOwner(ints, irq, is_nds9, num) ==
    IF irq
    THEN [i \in {0, 1} |-> IF i = is_nds9 THEN ints[i] \cup {DmaIrq(num)} ELSE ints[i]]
    ELSE ints

\* if irq { interrupts[0].request |= interrupt; interrupts[1].request |= interrupt }
RaiseDmaIrq(ints, irq, is_nds9, num) ==
    IF irq THEN [i \in {0, 1} |-> ints[i] \cup {DmaIrq(num)}] ELSE ints

\* HW::clock(cycles_passed): the global clock after the run
clock(now, cycles_passed) == now + cycles_passed

\* HW::run_dma on the machine m = [cycle, dma, interrupts, panicked, log]
run_dma(m, ch) ==
    LET c == m.dma[ch]
        addr_change == IF c.transfer_32 THEN 4 ELSE 2
        addr_mask == IF c.transfer_32 THEN 3 ELSE 1
        original_dest_addr == AlignDown(c.dad_latch, addr_mask)
        eligible == [c EXCEPT !.enable = ReArm(c)]
        loop == TransferLoop([src_addr |-> AlignDown(c.sad_latch, addr_mask),
                              dest_addr |-> original_dest_addr,
                              first |-> TRUE, cycles_passed |-> 0,
                              mem |-> <<>>, log |-> <<>>, panicked |-> FALSE],
                             c.count_latch, c.src_addr_ctrl, c.dest_addr_ctrl,
                             addr_change)
        after(done) ==
            [eligible EXCEPT
                !.sad_latch = done.src_addr,
                !.dad_latch = DadWriteBack(done.dest_addr, c.dest_addr_ctrl,
                                           original_dest_addr),
                !.active = IF eligible.enable THEN c.active ELSE FALSE]
        result(done) ==
            IF done.panicked
            THEN [m EXCEPT !.dma[ch] = eligible, !.panicked = TRUE, !.log = done.log]
            ELSE [m EXCEPT
                    !.dma[ch] = after(done),
                    !.cycle = clock(m.cycle, done.cycles_passed + 2),
                    !.interrupts = RaiseDmaIrq(m.interrupts, c.irq, ch[1], ch[2]),
                    !.log = done.log]
    IN  IF m.panicked THEN m
        ELSE CHOOSE r \in {result(done) : done \in {loop}} : TRUE

\* HW::run_dmas(occasion): every listed channel of that start timing is run,
\* the ARM9 controller's before the ARM7 controller's
RECURSIVE run_dmas_from(_, _, _)
run_dmas_from(m, occasion, i) ==
    IF i > Len(DmaOrder) THEN m
    ELSE LET ch == DmaOrder[i]
             c == m.dma[ch]
         IN  CHOOSE done \in {run_dmas_from(next, occasion, i + 1) :
                                 next \in {IF c.active /\ c.start_timing = occasion
                                           THEN run_dma(m, ch) ELSE m}} : TRUE

run_dmas(m, occasion) == run_dmas_from(m, occasion, 1)

(***************************************************************************)
(* Display timing (GPU::start_next_line, GPU::start_hblank) and the two    *)
(* display-status registers read by HW::check_dispstats.                   *)
(***************************************************************************)
\* GPU::start_next_line: the advanced line counter
NextLine(v) == (v + 1) % NumLines

\* HW::check_dispstats: check is applied to (dispstat7, interrupts[0]) and
\* then to (dispstat9, interrupts[1]); raise[i] is the closure's condition
\* on register i
check_dispstats(ints, raise, bit) ==
    [i \in {0, 1} |-> IF raise[i] THEN ints[i] \cup {bit} ELSE ints[i]]

\* faulty check: the enable flag is not consulted
VBlankCheckAlways(d) == TRUE

VBlankCheck(d) == "VBLANK_IRQ_ENABLE" \in d.flags

\* faulty check: the enable flag is not consulted
HBlankCheckAlways(d) == TRUE

HBlankCheck(d) == "HBLANK_IRQ_ENABLE" \in d.flags

(***************************************************************************)
(* VRAM bank control (struct VRAM, struct VRAMCNT).  Banks are numbered    *)
(* 0..8 as in the source; the tuples below are indexed from 1.             *)
(***************************************************************************)
BANKS_LEN == <<131072, 131072, 131072, 131072, 65536, 16384, 16384, 32768, 16384>>
MAPPING_LEN == 16384
LCDC_ADDRESSES ==
    <<109051904, 109182976, 109314048, 109445120, 109576192, 109641728,
      109658112, 109674496, 109707264>>
MST_MASKS == <<3, 3, 7, 7, 7, 7, 7, 3, 3>>
OFS_MASKS == <<3, 3, 3, 3, 0, 3, 3, 0, 0>>

\* byte & mask, for a mask of the form 2^k - 1
Low(byte, mask) == byte % (mask + 1)

\* VRAMCNT::new(index, byte)
VRAMCNT_new(index, byte) ==
    [mst |-> Low(byte, MST_MASKS[index + 1]),
     offset |-> Low(byte \div 8, OFS_MASKS[index + 1]),
     enabled |-> (byte \div 128) % 2 # 0]

\* range.step_by(MAPPING_LEN): the chunk addresses of start..end
Chunks(range) ==
    {range.start + k * MAPPING_LEN :
        k \in 0..((range.end - range.start + MAPPING_LEN - 1) \div MAPPING_LEN - 1)}

\* VRAM::new
VRAM_new ==
    [cnts |-> [i \in 0..8 |-> VRAMCNT_new(0, 0)],
     mappings |-> [a \in {} |-> [bank |-> 0, offset |-> 0]],
     mapping_ranges |-> [i \in 0..8 |-> [start |-> 0, end |-> 0]],
     lcdc_enabled |-> [i \in 0..8 |-> FALSE]]

\* faulty unmapping: every mapping is dropped, not only the bank's own
Unmap_all(mappings, range) == [a \in {} |-> [bank |-> 0, offset |-> 0]]

\* for addr in range.step_by(MAPPING_LEN) { self.mappings.remove(&addr) }
Unmap(mappings, range) ==
    [a \in DOMAIN mappings \ Chunks(range) |-> mappings[a]]

\* for addr in range.step_by(MAPPING_LEN) { self.mappings.insert(addr, ..) }
Map(mappings, range, bank, offset) ==
    [a \in DOMAIN mappings \cup Chunks(range) |->
        IF a \in Chunks(range) THEN [bank |-> bank, offset |-> offset]
        ELSE mappings[a]]

\* VRAM::write_vram_cnt(index, value): the VRAM after the call, or as it was
\* when the macro named by `abort` ended the call
write_vram_cnt(v, index, value) ==
    LET old == v.cnts[index]
        new_cnt == VRAMCNT_new(index, value)
        unmapped == [v EXCEPT !.mappings = Unmap(v.mappings, v.mapping_ranges[index])]
        abort1 == IF ~old.enabled THEN "none"
                  ELSE IF old.mst = 0
                  THEN (IF v.lcdc_enabled[index] THEN "none" ELSE "assert")
                  ELSE IF old.mst \in 1..5 THEN "todo" ELSE "unreachable"
        v1 == IF ~old.enabled THEN v
              ELSE IF abort1 = "none"
              THEN [unmapped EXCEPT !.lcdc_enabled[index] = FALSE]
              ELSE unmapped
        v2 == [v1 EXCEPT !.cnts[index] = new_cnt]
        start_addr == LCDC_ADDRESSES[index + 1]
        range == [start |-> start_addr, end |-> start_addr + BANKS_LEN[index + 1]]
        v3 == [v2 EXCEPT !.mapping_ranges[index] = range,
                         !.mappings = Map(v2.mappings, range, index, start_addr)]
    IN  IF abort1 # "none" THEN [vram |-> v1, abort |-> abort1]
        ELSE IF ~new_cnt.enabled THEN [vram |-> v2, abort |-> "none"]
        ELSE IF new_cnt.mst = 0
        THEN IF v2.lcdc_enabled[index]
             THEN [vram |-> v3, abort |-> "assert"]
             ELSE [vram |-> [v3 EXCEPT !.lcdc_enabled[index] = TRUE],
                   abort |-> "none"]
        ELSE IF new_cnt.mst \in 1..5 THEN [vram |-> v2, abort |-> "todo"]
        ELSE [vram |-> v2, abort |-> "unreachable"]

\* VRAM::get_lcdc_bank(bank): the bank whose buffer is returned
get_lcdc_bank(v, bank) == IF v.lcdc_enabled[bank] THEN Some(bank) ELSE None

\* VRAM::get_mem(addr) and get_mem_mut(addr): the bank whose buffer is
\* returned and the offset into it
get_mem(v, addr) ==
    LET key == addr - (addr % MAPPING_LEN) IN
    IF key \in DOMAIN v.mappings
    THEN Some([bank |-> v.mappings[key].bank, offset |-> addr - v.mappings[key].offset])
    ELSE None

(***************************************************************************)
(* Shared WRAM control (struct WRAMCNT).                                   *)
(***************************************************************************)
SHARED_WRAM_SIZE == 32768

\* WRAMCNT::changed
changed(w) ==
    IF w.value = 0
    THEN [w EXCEPT !.arm7_offset = 0, !.arm9_mask = SHARED_WRAM_SIZE - 1]
    ELSE IF w.value = 1
    THEN [w EXCEPT !.arm7_offset = 0,
                   !.arm7_mask = SHARED_WRAM_SIZE \div 2 - 1,
                   !.arm9_offset = SHARED_WRAM_SIZE \div 2,
                   !.arm9_mask = SHARED_WRAM_SIZE \div 2 - 1]
    ELSE IF w.value = 2
    THEN [w EXCEPT !.arm7_offset = SHARED_WRAM_SIZE \div 2,
                   !.arm7_mask = SHARED_WRAM_SIZE \div 2 - 1,
                   !.arm9_offset = 0,
                   !.arm9_mask = SHARED_WRAM_SIZE \div 2 - 1]
    ELSE [w EXCEPT !.arm7_mask = 0, !.arm9_offset = 0,
                   !.arm9_mask = SHARED_WRAM_SIZE - 1]

\* WRAMCNT::new(value)
WRAMCNT_new(value) ==
    changed([value |-> value, arm7_offset |-> 0, arm7_mask |-> 0,
             arm9_offset |-> 0, arm9_mask |-> 0])

\* IORegister::write for WRAMCNT (byte 0)
wramcnt_write(w, value) == changed([w EXCEPT !.value = value % 4])

(***************************************************************************)
(* State.                                                                  *)
(***************************************************************************)
VARIABLES
    cycle,        \* Scheduler.cycle
    event_queue,  \* Scheduler.event_queue
    pc,           \* "cpu": between handle_events calls; "drain": inside the
                  \* while loop of handle_events; "panic": aborted
    chan,         \* SPU channels, by ChannelSpec
    dma,          \* DMA channels, by (is_nds9, num)
    vcount,       \* the display's line counter
    dispstat,     \* dispstat7 (index 0) and dispstat9 (index 1)
    interrupts,   \* interrupts[0].request and interrupts[1].request
    dma_log,      \* reads and writes issued by the DMA runs of the last handler
    last,         \* the last operation: the entry it popped, the cycle it
                  \* started at, the last scheduler call it made and, for a
                  \* store, the offset of the channel register it addressed
    pass,         \* what the handlers of the current drain pass enqueued
    writes,       \* the number of register writes made since the initial state
    vram,         \* struct VRAM: cnts, mappings, mapping_ranges, lcdc_enabled
    vram_abort,   \* the macro that ended write_vram_cnt: "none" (it returned),
                  \* "todo", "unreachable" or "assert"
    wramcnt       \* struct WRAMCNT

vars == <<cycle, event_queue, pc, chan, dma, vcount, dispstat, interrupts,
          dma_log, last, pass, writes, vram, vram_abort, wramcnt>>

\* the memory-control state, which no scheduler handler touches
mem == <<vram, vram_abort, wramcnt>>

\* VRAM::new and WRAMCNT::new
InitMemory ==
    /\ vram = VRAM_new
    /\ vram_abort = "none"
    /\ wramcnt = WRAMCNT_new(0)

NoCall == [call |-> "none", cev |-> NoEvent, delay |-> 0, had |-> FALSE]
Call(kind, q, e, delay) ==
    [call |-> kind, cev |-> e, delay |-> delay, had |-> Pending(q, e)]

Last(op, x, c) ==
    [op |-> op, ev |-> x.ev, due |-> x.due, at |-> cycle, call |-> c.call,
     cev |-> c.cev, delay |-> c.delay, had |-> c.had, reg |-> -1]

NoEntry == Entry(NoEvent, 0)

Machine == [cycle |-> cycle, dma |-> dma, interrupts |-> interrupts,
            panicked |-> FALSE, log |-> <<>>]

\* Scheduler::new, SPU::new and the display's first events
InitScheduler ==
    /\ InitMemory
    /\ cycle = 0
    /\ event_queue = {Entry(GenerateAudioSample, ClocksPerSample),
                      Entry(StartNextLine, LinePeriod),
                      Entry(HBlank, HBlankOffset)}
    /\ pc = "cpu"
    /\ chan = [s \in ChannelSpecs |-> NewChannel]
    /\ vcount = 0
    /\ interrupts = [i \in {0, 1} |-> {}]
    /\ dma_log = <<>>
    /\ last = Last("init", NoEntry, NoCall)
    /\ pass = [enq |-> {}, hit |-> FALSE]
    /\ writes = 0

Init ==
    /\ InitScheduler
    /\ dma = [ch \in DmaChannels |->
                IF ch[1] = 1
                THEN DmaChannel(U32(0, 1), U32(0, 65534), 1, 0, 0, FALSE, TRUE,
                                "Immediate", FALSE)
                ELSE [DmaChannel(U32(512, 4), U32(1024, 8), 1, 2, 3, TRUE, FALSE,
                                 "VBlank", TRUE)
                      EXCEPT !.enable = TRUE, !.active = TRUE]]
    /\ dispstat = [i \in {0, 1} |->
                     IF i = 0
                     THEN [flags |-> {"VBLANK_IRQ_ENABLE"}, vcount_setting |-> 1]
                     ELSE [flags |-> {"HBLANK_IRQ_ENABLE"}, vcount_setting |-> 2]]

(***************************************************************************)
(* The dispatch loop: HW::handle_events and HW::handle_event.              *)
(***************************************************************************)
\* Scheduler::get_next_event: the entries it may pop (none: it returns None)
get_next_event(q, now) == {x \in Top(q) : IsDue(now, x.due)}

\* faulty advance: the counter is assigned, not added to
advance_assign(now, arm7_cycles) == arm7_cycles

\* self.scheduler.cycle += arm7_cycles
advance(now, arm7_cycles) == now + arm7_cycles

\* faulty heartbeats: the re-arm is dropped; the re-arm has no delay
generate_sample_lost(q, now) == q
generate_sample_now(q, now) == schedule(q, now, GenerateAudioSample, 0)

\* SPU::generate_sample: the queue after the heartbeat re-armed itself
generate_sample(q, now) == schedule(q, now, GenerateAudioSample, ClocksPerSample)

\* the handlers' enqueued events of this pass, after x was popped and the
\* handler scheduled the events in S
PassAfter(x, S) ==
    [enq |-> (pass.enq \ {x.ev}) \cup S, hit |-> pass.hit \/ x.ev \in pass.enq]

HandleEvents(arm7_cycles) ==
    /\ pc = "cpu"
    /\ cycle + arm7_cycles <= MaxCycle
    /\ cycle' = advance(cycle, arm7_cycles)
    /\ pc' = "drain"
    /\ last' = Last("handle_events", NoEntry, NoCall)
    /\ pass' = [enq |-> {}, hit |-> FALSE]
    /\ UNCHANGED mem
    /\ UNCHANGED <<event_queue, chan, dma, vcount, dispstat, interrupts, dma_log, writes>>

\* the while loop's condition fails: handle_events returns
Return ==
    /\ pc = "drain"
    /\ get_next_event(event_queue, cycle) = {}
    /\ pc' = IF event_queue = {} THEN "panic" ELSE "cpu"
    /\ last' = Last("return", NoEntry, NoCall)
    /\ UNCHANGED mem
    /\ UNCHANGED <<cycle, event_queue, chan, dma, vcount, dispstat, interrupts,
                   dma_log, pass, writes>>

\* Event::GenerateAudioSample
DispatchGenerateAudioSample ==
    /\ pc = "drain"
    /\ \E x \in get_next_event(event_queue, cycle) :
         /\ x.ev = GenerateAudioSample
         /\ LET q1 == event_queue \ {x} IN
            /\ event_queue' = generate_sample(q1, cycle)
            /\ last' = Last("dispatch", x,
                            Call("schedule", q1, GenerateAudioSample, ClocksPerSample))
            /\ pass' = PassAfter(x, {GenerateAudioSample})
    /\ UNCHANGED mem
    /\ UNCHANGED <<cycle, pc, chan, dma, vcount, dispstat, interrupts, dma_log, writes>>

\* the units arm7_read may return for a sample
SampleUnits == {128, 64}

\* faulty match: the last format is stepped like PCM8
UnimplementedAsPCM(format) == FALSE

\* `_ => todo!()`: the formats the match on channel.format() does not handle
\* (the decoding of Format::ADPCM is outside this model)
Unimplemented(format) == format = PSGNoise

\* Event::StepAudioChannel(channel_spec); the arms for Base, PSG and Noise
\* channels are the same code on base_channels, psg_channels, noise_channels
DispatchStepAudioChannel(spec) ==
    /\ pc = "drain"
    /\ \E x \in get_next_event(event_queue, cycle) :
         /\ x.ev = StepAudioChannel(spec)
         /\ LET q1 == event_queue \ {x}
                c == chan[spec]
                size == UnitSize(c.format)
                r == next_addr(c, size)
            IN  /\ c.format # ADPCM
                /\ IF Unimplemented(c.format)
                   THEN /\ pc' = "panic"
                        /\ event_queue' = q1
                        /\ last' = Last("dispatch", x, NoCall)
                        /\ pass' = PassAfter(x, {})
                        /\ UNCHANGED chan
                   ELSE IF r.ret = None
                   THEN /\ event_queue' = q1
                        /\ last' = Last("dispatch", x, NoCall)
                        /\ pass' = PassAfter(x, {})
                        /\ UNCHANGED <<chan, pc>>
                   ELSE \/ \* built with overflow checks, `-=` panics when it wraps
                           /\ r.underflow
                           /\ pc' = "panic"
                           /\ event_queue' = q1
                           /\ chan' = [chan EXCEPT ![spec].addr = c.addr + size]
                           /\ last' = Last("dispatch", x, NoCall)
                           /\ pass' = PassAfter(x, {})
                        \/ \* built with overflow checks, the negation in schedule panics
                           /\ ~r.underflow
                           /\ NegOverflows(c.timer_val)
                           /\ pc' = "panic"
                           /\ event_queue' = q1
                           /\ chan' = [chan EXCEPT ![spec] = r.chan]
                           /\ last' = Last("dispatch", x, NoCall)
                           /\ pass' = PassAfter(x, {})
                        \/ \* otherwise the step goes on (with the wrapped values)
                           /\ event_queue' = ChannelSchedule(q1, cycle, r.chan, spec)
                           /\ \E unit \in SampleUnits :
                                chan' = [chan EXCEPT ![spec] = set_sample(r.chan, size, unit)]
                           /\ last' = Last("dispatch", x,
                                           IF c.timer_val # 0
                                           THEN Call("schedule", q1, StepAudioChannel(spec),
                                                     TimerDelay(c.timer_val))
                                           ELSE NoCall)
                           /\ pass' = PassAfter(x, IF c.timer_val # 0
                                                   THEN {StepAudioChannel(spec)} ELSE {})
                           /\ UNCHANGED pc
    /\ UNCHANGED mem
    /\ UNCHANGED <<cycle, dma, vcount, dispstat, interrupts, dma_log, writes>>

\* Event::DMA(is_nds9, num)
DispatchDMA(ch) ==
    /\ pc = "drain"
    /\ \E x \in get_next_event(event_queue, cycle) :
         /\ x.ev = EvDMA(ch)
         /\ LET m == run_dma(Machine, ch) IN
            /\ event_queue' = event_queue \ {x}
            /\ cycle' = m.cycle
            /\ dma' = m.dma
            /\ interrupts' = m.interrupts
            /\ dma_log' = m.log
            /\ pc' = IF m.panicked THEN "panic" ELSE "drain"
            /\ last' = Last("dispatch", x, NoCall)
            /\ pass' = PassAfter(x, {})
    /\ UNCHANGED mem
    /\ UNCHANGED <<chan, vcount, dispstat, writes>>

\* Event::StartNextLine, with Event::VBlank handled inside it
DispatchStartNextLine ==
    /\ pc = "drain"
    /\ \E x \in get_next_event(event_queue, cycle) :
         /\ x.ev = StartNextLine
         /\ LET q1 == event_queue \ {x}
                v == NextLine(vcount)
                start_vblank == v = VBlankLine
                m == IF start_vblank THEN run_dmas(Machine, "VBlank") ELSE Machine
                ints1 == IF start_vblank
                         THEN check_dispstats(m.interrupts,
                                  [i \in {0, 1} |-> VBlankCheck(dispstat[i])], "VBLANK")
                         ELSE m.interrupts
                ints2 == check_dispstats(ints1,
                             [i \in {0, 1} |-> /\ VBlankCheck(dispstat[i])
                                               /\ v = dispstat[i].vcount_setting],
                             "VCOUNTER_MATCH")
            IN  /\ vcount' = v
                /\ event_queue' = schedule(q1, cycle, StartNextLine, LinePeriod)
                /\ cycle' = m.cycle
                /\ dma' = m.dma
                /\ dma_log' = m.log
                /\ interrupts' = IF m.panicked THEN m.interrupts ELSE ints2
                /\ pc' = IF m.panicked THEN "panic" ELSE "drain"
                /\ last' = Last("dispatch", x,
                                Call("schedule", q1, StartNextLine, LinePeriod))
                /\ pass' = PassAfter(x, {StartNextLine})
    /\ UNCHANGED mem
    /\ UNCHANGED <<chan, dispstat, writes>>

\* Event::HBlank
DispatchHBlank ==
    /\ pc = "drain"
    /\ \E x \in get_next_event(event_queue, cycle) :
         /\ x.ev = HBlank
         /\ LET q1 == event_queue \ {x}
                m == IF vcount < VBlankLine THEN run_dmas(Machine, "HBlank") ELSE Machine
            IN  /\ event_queue' = schedule(q1, cycle, HBlank, LinePeriod)
                /\ cycle' = m.cycle
                /\ dma' = m.dma
                /\ dma_log' = m.log
                /\ interrupts' = IF m.panicked THEN m.interrupts
                                 ELSE check_dispstats(m.interrupts,
                                          [i \in {0, 1} |-> HBlankCheck(dispstat[i])],
                                          "HBLANK")
                /\ pc' = IF m.panicked THEN "panic" ELSE "drain"
                /\ last' = Last("dispatch", x, Call("schedule", q1, HBlank, LinePeriod))
                /\ pass' = PassAfter(x, {HBlank})
    /\ UNCHANGED mem
    /\ UNCHANGED <<chan, vcount, dispstat, writes>>

(***************************************************************************)
(* Register writes made by the CPU between handle_events calls.            *)
(***************************************************************************)
\* x & !mask | value << shift for the byte at position k of x
SetByte(x, k, value) ==
    LET unit == IF k = 0 THEN 1 ELSE IF k = 1 THEN 256
                ELSE IF k = 2 THEN 65536 ELSE 16777216
    IN  x - ((x \div unit) % 256) * unit + value * unit

\* ChannelControl::write, byte 3: bit 7 start/busy, bits 5-6 format,
\* bits 3-4 repeat mode
CntWrite3(c, value) ==
    [c EXCEPT !.busy = value >= 128,
              !.format = (value \div 32) % 4,
              !.repeat_mode = (value \div 8) % 4]

\* faulty control write: the first step is armed whenever the channel is
\* busy after the write, whether or not it was busy before
channel_write_rearm(c, q, now, spec, byte, value) ==
    IF byte = 3
    THEN LET w == CntWrite3(c, value) IN
         IF w.busy
         THEN [chan |-> [w EXCEPT !.last_sample = None],
               queue |-> ChannelSchedule(q, now, w, spec),
               call |-> IF w.timer_val # 0
                        THEN Call("schedule", q, StepAudioChannel(spec),
                                  TimerDelay(w.timer_val))
                        ELSE NoCall,
               overflow |-> NegOverflows(w.timer_val)]
         ELSE [chan |-> [w EXCEPT !.last_sample = None],
               queue |-> remove(q, StepAudioChannel(spec)),
               call |-> Call("remove", q, StepAudioChannel(spec), 0),
               overflow |-> FALSE]
    ELSE IF byte \in 4..7
    THEN LET a == SetByte(c.src_addr, byte - 4, value) % 67108864 IN
         [chan |-> [c EXCEPT !.src_addr = a, !.addr = a],
          queue |-> q, call |-> NoCall, overflow |-> FALSE]
    ELSE IF byte \in 8..9
    THEN LET w == [c EXCEPT !.timer_val = SetByte(c.timer_val, byte - 8, value)] IN
         [chan |-> w,
          queue |-> ChannelSchedule(q, now, w, spec),
          call |-> IF w.timer_val # 0
                   THEN Call("schedule", q, StepAudioChannel(spec),
                             TimerDelay(w.timer_val))
                   ELSE NoCall,
          overflow |-> NegOverflows(w.timer_val)]
    ELSE IF byte \in 12..15
    THEN LET l == SetByte(c.len, byte - 12, value) % 4194304 IN
         [chan |-> [c EXCEPT !.len = l, !.num_bytes_left = l * 4],
          queue |-> q, call |-> NoCall, overflow |-> FALSE]
    ELSE [chan |-> c, queue |-> q, call |-> NoCall, overflow |-> FALSE]

\* Channel::write: the channel, the queue and the scheduler call made
channel_write(c, q, now, spec, byte, value) ==
    IF byte = 3
    THEN LET w == CntWrite3(c, value) IN
         IF ~c.busy /\ w.busy
         THEN [chan |-> [w EXCEPT !.last_sample = None],
               queue |-> ChannelSchedule(q, now, w, spec),
               call |-> IF w.timer_val # 0
                        THEN Call("schedule", q, StepAudioChannel(spec),
                                  TimerDelay(w.timer_val))
                        ELSE NoCall,
               overflow |-> NegOverflows(w.timer_val)]
         ELSE IF ~w.busy
         THEN [chan |-> [w EXCEPT !.last_sample = None],
               queue |-> remove(q, StepAudioChannel(spec)),
               call |-> Call("remove", q, StepAudioChannel(spec), 0),
               overflow |-> FALSE]
         ELSE [chan |-> w, queue |-> q, call |-> NoCall, overflow |-> FALSE]
    ELSE IF byte \in 4..7
    THEN LET a == SetByte(c.src_addr, byte - 4, value) % 67108864 IN
         [chan |-> [c EXCEPT !.src_addr = a, !.addr = a],
          queue |-> q, call |-> NoCall, overflow |-> FALSE]
    ELSE IF byte \in 8..9
    THEN LET w == [c EXCEPT !.timer_val = SetByte(c.timer_val, byte - 8, value)] IN
         [chan |-> w,
          queue |-> ChannelSchedule(q, now, w, spec),
          call |-> IF w.timer_val # 0
                   THEN Call("schedule", q, StepAudioChannel(spec),
                             TimerDelay(w.timer_val))
                   ELSE NoCall,
          overflow |-> NegOverflows(w.timer_val)]
    ELSE IF byte \in 12..15
    THEN LET l == SetByte(c.len, byte - 12, value) % 4194304 IN
         [chan |-> [c EXCEPT !.len = l, !.num_bytes_left = l * 4],
          queue |-> q, call |-> NoCall, overflow |-> FALSE]
    \* bytes 0..2 (volume, pan) and 10..11 (loop_start) hold no modelled state
    ELSE [chan |-> c, queue |-> q, call |-> NoCall, overflow |-> FALSE]

\* HW::write_from_bytes: a store of `size` bytes is issued as byte writes,
\* lowest byte first; w = [chan, queue, call, trap] is the state so far, and
\* trap holds the channel and queue at the first negation that overflowed
RECURSIVE write_from_bytes(_, _, _, _, _, _, _)
write_from_bytes(w, now, spec, addr, size, value, i) ==
    IF i = size THEN w
    ELSE LET byte == (value \div (IF i = 0 THEN 1 ELSE IF i = 1 THEN 256
                                  ELSE IF i = 2 THEN 65536 ELSE 16777216)) % 256
             r == channel_write(w.chan, w.queue, now, spec, addr + i, byte)
         IN  write_from_bytes(
                 [chan |-> r.chan, queue |-> r.queue,
                  call |-> IF r.call = NoCall THEN w.call ELSE r.call,
                  trap |-> IF w.trap # None THEN w.trap
                           ELSE IF r.overflow
                           THEN Some([chan |-> r.chan, queue |-> w.queue])
                           ELSE None],
                 now, spec, addr, size, value, i + 1)

\* the stores <<first byte, size, value>> the model draws for a channel:
\* control byte 3, the 16-bit timer reload, the 32-bit length
ChannelStores ==
    {<<3, 1, 0>>, <<3, 1, 136>>, <<8, 2, 65535>>, <<8, 2, 65534>>, <<12, 4, 1>>}

\* SPU::write_channels, once per byte of a CPU store to a channel register
ChannelWrite(spec, addr, size, value) ==
    /\ pc = "cpu"
    /\ writes < MaxWrites
    /\ writes' = writes + 1
    /\ LET w == write_from_bytes([chan |-> chan[spec], queue |-> event_queue,
                                  call |-> NoCall, trap |-> None],
                                 cycle, spec, addr, size, value, 0) IN
       \E checked \in (IF w.trap # None THEN BOOLEAN ELSE {FALSE}) :
          IF checked
          THEN \* built with overflow checks, the negation panics
               /\ pc' = "panic"
               /\ chan' = [chan EXCEPT ![spec] = w.trap[1].chan]
               /\ event_queue' = w.trap[1].queue
               /\ last' = [Last("write", NoEntry, NoCall) EXCEPT !.reg = addr]
          ELSE \* otherwise the store goes on (with the wrapped delay)
               /\ chan' = [chan EXCEPT ![spec] = w.chan]
               /\ event_queue' = w.queue
               /\ last' = [Last("write", NoEntry, w.call) EXCEPT !.reg = addr]
               /\ UNCHANGED pc
    /\ UNCHANGED mem
    /\ UNCHANGED <<cycle, dma, vcount, dispstat, interrupts, dma_log, pass>>

\* the latches captured when the channel is enabled
Latch(c) ==
    [c EXCEPT !.sad_latch = c.sad, !.dad_latch = c.dad, !.count_latch = c.count,
              !.enable = TRUE, !.active = TRUE]

\* a DMA control write that enables an Immediate channel: the latches are
\* captured and the transfer is queued with Scheduler::run_now
TriggerDMA(ch) ==
    /\ pc = "cpu"
    /\ cycle < MaxCycle
    /\ writes < MaxWrites
    /\ writes' = writes + 1
    /\ dma[ch].start_timing = "Immediate"
    /\ dma' = [dma EXCEPT ![ch] = Latch(dma[ch])]
    /\ event_queue' = run_now(event_queue, cycle, EvDMA(ch))
    /\ last' = Last("trigger", NoEntry, Call("schedule", event_queue, EvDMA(ch), 0))
    /\ UNCHANGED mem
    /\ UNCHANGED <<cycle, pc, chan, vcount, dispstat, interrupts, dma_log, pass>>

Next ==
    \/ \E n \in 1..MaxAdvance : HandleEvents(n)
    \/ Return
    \/ DispatchGenerateAudioSample
    \/ \E spec \in ChannelSpecs : DispatchStepAudioChannel(spec)
    \/ \E ch \in DmaChannels : DispatchDMA(ch)
    \/ DispatchStartNextLine
    \/ DispatchHBlank
    \/ \E spec \in ChannelSpecs : \E w \in ChannelStores :
          ChannelWrite(spec, w[1], w[2], w[3])
    \/ \E ch \in DmaChannels : TriggerDMA(ch)

Spec == Init /\ [][Next]_vars

(***************************************************************************)
(* The scheduler under a CPU that keeps running: handle_events is called   *)
(* again after every instruction, and its while loop runs to its end.      *)
(***************************************************************************)
Drain ==
    \/ Return
    \/ DispatchGenerateAudioSample
    \/ \E spec \in ChannelSpecs : DispatchStepAudioChannel(spec)
    \/ \E ch \in DmaChannels : DispatchDMA(ch)
    \/ DispatchStartNextLine
    \/ DispatchHBlank

FairSpec ==
    /\ Init
    /\ [][Next]_vars
    /\ WF_vars(\E n \in 1..MaxAdvance : HandleEvents(n))
    /\ WF_vars(Drain)

(***************************************************************************)
(* One DMA run from every latched configuration of the drawn sets.         *)
(***************************************************************************)
\* latched addresses: aligned, odd, at a 16-bit carry and at the 2^32 wrap
AddrInputs ==
    {U32(0, 0), U32(0, 1), U32(0, 65534), U32(65535, 65534), U32(65535, 65535)}

\* request bits left pending in interrupts[0] by earlier events
PendingInputs == {{}, {"VBLANK"}}

InitDMA ==
    /\ InitMemory
    /\ cycle = 0
    /\ pc = "drain"
    /\ chan = [s \in ChannelSpecs |-> NewChannel]
    /\ vcount = 0
    /\ dma_log = <<>>
    /\ last = Last("handle_events", NoEntry, NoCall)
    /\ pass = [enq |-> {}, hit |-> FALSE]
    /\ writes = 1
    /\ dispstat = [i \in {0, 1} |-> [flags |-> {}, vcount_setting |-> 0]]
    /\ \E run \in DmaChannels, pend \in PendingInputs,
          sad \in AddrInputs, dad \in AddrInputs, count \in 0..MaxCount,
          sctl \in 0..3, dctl \in 0..3, t32 \in BOOLEAN, irq \in BOOLEAN,
          timing \in {"Immediate", "VBlank"}, repeat \in BOOLEAN :
         /\ event_queue = {Entry(GenerateAudioSample, ClocksPerSample),
                           Entry(StartNextLine, LinePeriod),
                           Entry(HBlank, HBlankOffset),
                           Entry(EvDMA(run), 0)}
         /\ interrupts = [i \in {0, 1} |-> IF i = 0 THEN pend ELSE {}]
         /\ dma = [ch \in DmaChannels |->
                     IF ch = run
                     THEN Latch(DmaChannel(sad, dad, count, sctl, dctl, t32, irq,
                                           timing, repeat))
                     ELSE DmaChannel(U32(0, 0), U32(0, 0), 0, 0, 0, FALSE, FALSE,
                                     "Immediate", FALSE)]

NextDMA == \E ch \in DmaChannels : DispatchDMA(ch)

SpecDMA == InitDMA /\ [][NextDMA]_vars

(***************************************************************************)
(* Playback of one sound channel: the run starts right after the driver    *)
(* stored the channel's length, timer reload and control byte at cycle 0,  *)
(* and goes on with further stores to that channel.                        *)
(***************************************************************************)
\* the channel the driver programs
AudioSpecs == {<<0, 0>>}

\* the driver's stores: length in words, timer reload (delay 1 or 2), and
\* the control byte: start with PCM8 Manual / Loop / OneShot, PCM16 Manual
LenInputs == {1}
TimerInputs == {65535, 65534}
ControlInputs == {128, 136, 144, 160}

\* the stores made during playback: stop, restart as PCM8 Loop, switch to
\* PCM16 Loop, a timer reload of 0 and of -1
AudioStores == {<<3, 1, 0>>, <<3, 1, 136>>, <<3, 1, 168>>, <<8, 2, 0>>, <<8, 2, 65535>>}

\* the channel and queue after the three programming stores
Programmed(spec, len, timer, control) ==
    LET q0 == {Entry(GenerateAudioSample, ClocksPerSample),
               Entry(StartNextLine, LinePeriod),
               Entry(HBlank, HBlankOffset)}
        w0 == [chan |-> NewChannel, queue |-> q0, call |-> NoCall, trap |-> None]
        w1 == write_from_bytes(w0, 0, spec, 12, 4, len, 0)
        w2 == write_from_bytes(w1, 0, spec, 8, 2, timer, 0)
    IN  write_from_bytes(w2, 0, spec, 3, 1, control, 0)

InitAudio ==
    /\ InitMemory
    /\ cycle = 0
    /\ pc = "cpu"
    /\ vcount = 0
    /\ interrupts = [i \in {0, 1} |-> {}]
    /\ dma_log = <<>>
    /\ pass = [enq |-> {}, hit |-> FALSE]
    /\ writes = 0
    /\ dispstat = [i \in {0, 1} |-> [flags |-> {}, vcount_setting |-> 0]]
    /\ dma = [ch \in DmaChannels |->
                DmaChannel(U32(0, 0), U32(0, 0), 0, 0, 0, FALSE, FALSE,
                           "Immediate", FALSE)]
    /\ \E spec \in AudioSpecs, len \in LenInputs, timer \in TimerInputs,
          control \in ControlInputs :
         LET w == Programmed(spec, len, timer, control) IN
         /\ chan = [s \in ChannelSpecs |-> IF s = spec THEN w.chan ELSE NewChannel]
         /\ event_queue = w.queue
         /\ last = Last("write", NoEntry, w.call)

NextAudio ==
    \/ \E n \in 1..MaxAdvance : HandleEvents(n)
    \/ Return
    \/ DispatchGenerateAudioSample
    \/ \E spec \in AudioSpecs : DispatchStepAudioChannel(spec)
    \/ DispatchStartNextLine
    \/ DispatchHBlank
    \/ \E spec \in AudioSpecs : \E w \in AudioStores :
          ChannelWrite(spec, w[1], w[2], w[3])

SpecAudio == InitAudio /\ [][NextAudio]_vars

(***************************************************************************)
(* Timer reloads: the driver programs a channel and then stores to its     *)
(* timer register (16-bit stores and stores to either byte) and to its     *)
(* control byte.                                                           *)
(***************************************************************************)
\* the reload programmed at cycle 0: none, delay 1, delay 256
ReloadInputs == {0, 65535, 65280}

\* the control byte programmed at cycle 0: start with PCM8 Manual / Loop
StartInputs == {128, 136}

\* the stores made afterwards: reloads 0x8000, 0x8001 and 1, the high byte
\* alone as 0, stop, restart
TimerStores ==
    {<<8, 2, 32768>>, <<8, 2, 32769>>, <<8, 2, 1>>, <<9, 1, 0>>,
     <<3, 1, 0>>, <<3, 1, 136>>}

InitTimer ==
    /\ InitMemory
    /\ cycle = 0
    /\ pc = "cpu"
    /\ vcount = 0
    /\ interrupts = [i \in {0, 1} |-> {}]
    /\ dma_log = <<>>
    /\ pass = [enq |-> {}, hit |-> FALSE]
    /\ writes = 0
    /\ dispstat = [i \in {0, 1} |-> [flags |-> {}, vcount_setting |-> 0]]
    /\ dma = [ch \in DmaChannels |->
                DmaChannel(U32(0, 0), U32(0, 0), 0, 0, 0, FALSE, FALSE,
                           "Immediate", FALSE)]
    /\ \E spec \in AudioSpecs, timer \in ReloadInputs, control \in StartInputs :
         LET w == Programmed(spec, 1, timer, control) IN
         /\ chan = [s \in ChannelSpecs |-> IF s = spec THEN w.chan ELSE NewChannel]
         /\ event_queue = w.queue
         /\ last = Last("write", NoEntry, w.call)

NextTimer ==
    \/ \E n \in 1..MaxAdvance : HandleEvents(n)
    \/ Return
    \/ DispatchGenerateAudioSample
    \/ \E spec \in AudioSpecs : DispatchStepAudioChannel(spec)
    \/ DispatchStartNextLine
    \/ DispatchHBlank
    \/ \E spec \in AudioSpecs : \E w \in TimerStores :
          ChannelWrite(spec, w[1], w[2], w[3])

SpecTimer == InitTimer /\ [][NextTimer]_vars

(***************************************************************************)
(* The drain loop with every kind of event in play: a looping sound        *)
(* channel stepping every cycle, and a repeating DMA channel timed by      *)
(* VBlank or by HBlank whose runs advance the clock inside the handler.    *)
(***************************************************************************)
InitLines ==
    /\ InitMemory
    /\ cycle = 0
    /\ pc = "cpu"
    /\ vcount = 0
    /\ interrupts = [i \in {0, 1} |-> {}]
    /\ dma_log = <<>>
    /\ pass = [enq |-> {}, hit |-> FALSE]
    /\ writes = 0
    /\ dispstat = [i \in {0, 1} |->
                     IF i = 0
                     THEN [flags |-> {"VBLANK_IRQ_ENABLE"}, vcount_setting |-> 1]
                     ELSE [flags |-> {"HBLANK_IRQ_ENABLE"}, vcount_setting |-> 2]]
    /\ LET w == Programmed(<<0, 0>>, 1, 65535, 136) IN
       /\ chan = [s \in ChannelSpecs |-> IF s = <<0, 0>> THEN w.chan ELSE NewChannel]
       /\ event_queue = w.queue
       /\ last = Last("write", NoEntry, w.call)
    /\ \E timing \in {"VBlank", "HBlank"}, count \in 1..MaxCount, t32 \in BOOLEAN :
         dma = [ch \in DmaChannels |->
                  IF ch[1] = 1
                  THEN DmaChannel(U32(0, 1), U32(0, 65534), 1, 0, 0, FALSE, TRUE,
                                  "Immediate", FALSE)
                  ELSE [DmaChannel(U32(512, 4), U32(1024, 8), count, 2, 3, t32, FALSE,
                                   timing, TRUE)
                        EXCEPT !.enable = TRUE, !.active = TRUE]]

NextLines ==
    \/ \E n \in 1..MaxAdvance : HandleEvents(n)
    \/ Return
    \/ DispatchGenerateAudioSample
    \/ \E spec \in ChannelSpecs : DispatchStepAudioChannel(spec)
    \/ \E ch \in DmaChannels : DispatchDMA(ch)
    \/ DispatchStartNextLine
    \/ DispatchHBlank
    \/ \E ch \in DmaChannels : TriggerDMA(ch)

FairLines ==
    /\ InitLines
    /\ [][NextLines]_vars
    /\ WF_vars(\E n \in 1..MaxAdvance : HandleEvents(n))
    /\ WF_vars(Drain)

(***************************************************************************)
(* Formats: one channel of each kind is programmed with a PCM8 format or   *)
(* with the format the step handler does not implement, and the driver     *)
(* goes on storing to its control byte and timer.                          *)
(***************************************************************************)
\* ChannelSpec::Base(0), ChannelSpec::PSG(0), ChannelSpec::Noise(0)
KindSpecs == {<<0, 0>>, <<1, 0>>, <<2, 0>>}

\* the control byte programmed at cycle 0: start with PCM8 or with format 3
FormatInputs == {128, 224}

\* the stores made afterwards: start with format 3, start with PCM8
FormatStores == {<<3, 1, 224>>, <<3, 1, 128>>}

InitFormat ==
    /\ InitMemory
    /\ cycle = 0
    /\ pc = "cpu"
    /\ vcount = 0
    /\ interrupts = [i \in {0, 1} |-> {}]
    /\ dma_log = <<>>
    /\ pass = [enq |-> {}, hit |-> FALSE]
    /\ writes = 0
    /\ dispstat = [i \in {0, 1} |-> [flags |-> {}, vcount_setting |-> 0]]
    /\ dma = [ch \in DmaChannels |->
                DmaChannel(U32(0, 0), U32(0, 0), 0, 0, 0, FALSE, FALSE,
                           "Immediate", FALSE)]
    /\ \E spec \in KindSpecs, control \in FormatInputs :
         LET w == Programmed(spec, 1, 65535, control) IN
         /\ chan = [s \in KindSpecs |-> IF s = spec THEN w.chan ELSE NewChannel]
         /\ event_queue = w.queue
         /\ last = Last("write", NoEntry, w.call)

NextFormat ==
    \/ \E n \in 1..MaxAdvance : HandleEvents(n)
    \/ Return
    \/ DispatchGenerateAudioSample
    \/ \E spec \in KindSpecs : DispatchStepAudioChannel(spec)
    \/ DispatchStartNextLine
    \/ DispatchHBlank
    \/ \E spec \in KindSpecs : \E w \in FormatStores :
          ChannelWrite(spec, w[1], w[2], w[3])

SpecFormat == InitFormat /\ [][NextFormat]_vars

(***************************************************************************)
(* Horizontal blank: each context's display-status register enables the    *)
(* HBlank interrupt or not, and the ARM7 DMA channel is timed by HBlank or *)
(* by VBlank, with or without a completion interrupt.                      *)
(***************************************************************************)
\* the flag sets drawn for dispstat7 and dispstat9
FlagInputs == {{}, {"HBLANK_IRQ_ENABLE"}}

InitHBlank ==
    /\ InitMemory
    /\ cycle = 0
    /\ pc = "cpu"
    /\ vcount = 0
    /\ interrupts = [i \in {0, 1} |-> {}]
    /\ dma_log = <<>>
    /\ pass = [enq |-> {}, hit |-> FALSE]
    /\ writes = 0
    /\ LET w == Programmed(<<0, 0>>, 1, 65535, 136) IN
       /\ chan = [s \in ChannelSpecs |-> IF s = <<0, 0>> THEN w.chan ELSE NewChannel]
       /\ event_queue = w.queue
       /\ last = Last("write", NoEntry, w.call)
    /\ \E f7 \in FlagInputs, f9 \in FlagInputs :
         dispstat = [i \in {0, 1} |->
                       [flags |-> IF i = 0 THEN f7 ELSE f9, vcount_setting |-> 1]]
    /\ \E timing \in {"VBlank", "HBlank"}, irq \in BOOLEAN :
         dma = [ch \in DmaChannels |->
                  IF ch[1] = 1
                  THEN DmaChannel(U32(0, 1), U32(0, 65534), 1, 0, 0, FALSE, TRUE,
                                  "Immediate", FALSE)
                  ELSE [DmaChannel(U32(512, 4), U32(1024, 8), 1, 2, 3, FALSE, irq,
                                   timing, TRUE)
                        EXCEPT !.enable = TRUE, !.active = TRUE]]

SpecHBlank == InitHBlank /\ [][NextLines]_vars

(***************************************************************************)
(* Bank control writes: the driver stores to the nine VRAMCNT registers,   *)
(* first with bytes that select the LCDC mode only, then with bytes that   *)
(* select every mode the masks let through.                                *)
(***************************************************************************)
MaxBankWrites == 4

\* disable, enable, enable with bit 2 set (mode 0 under a 2-bit mask)
LcdcBytes == {0, 128, 132}

\* disable, and enable with mode bits 0, 1, 5 and 6
VramBytes == {0, 128, 129, 133, 134}

\* a CPU store of `value` to VRAMCNT register `index`
WriteVramCnt(index, value) ==
    /\ pc = "cpu"
    /\ writes < MaxBankWrites
    /\ writes' = writes + 1
    /\ LET r == write_vram_cnt(vram, index, value) IN
       /\ vram' = r.vram
       /\ vram_abort' = r.abort
       /\ pc' = IF r.abort = "none" THEN "cpu" ELSE "panic"
    /\ last' = [Last("write_vram_cnt", NoEntry, NoCall) EXCEPT !.reg = index]
    /\ UNCHANGED wramcnt
    /\ UNCHANGED <<cycle, event_queue, chan, dma, vcount, dispstat, interrupts,
                   dma_log, pass>>

NextLCDC ==
    \E index \in 0..8, value \in LcdcBytes :
        /\ VRAMCNT_new(index, value).mst = 0
        /\ WriteVramCnt(index, value)

SpecLCDC == Init /\ [][NextLCDC]_vars

NextVRAM == \E index \in 0..8, value \in VramBytes : WriteVramCnt(index, value)

SpecVRAM == Init /\ [][NextVRAM]_vars

(***************************************************************************)
(* Shared WRAM control writes: the driver stores bytes to WRAMCNT.         *)
(***************************************************************************)
MaxWramWrites == 16

\* the four settings, and bytes with bits set above the two that are kept
WramBytes == {0, 1, 2, 3, 6, 255}

\* a CPU store of `value` to WRAMCNT (byte 0)
WriteWramCnt(value) ==
    /\ pc = "cpu"
    /\ writes < MaxWramWrites
    /\ writes' = writes + 1
    /\ wramcnt' = wramcnt_write(wramcnt, value)
    /\ last' = [Last("write_wramcnt", NoEntry, NoCall) EXCEPT !.reg = 0]
    /\ UNCHANGED <<vram, vram_abort>>
    /\ UNCHANGED <<cycle, event_queue, pc, chan, dma, vcount, dispstat, interrupts,
                   dma_log, pass>>

NextWRAM == \E value \in WramBytes : WriteWramCnt(value)

SpecWRAM == Init /\ [][NextWRAM]_vars

(***************************************************************************)
(* Properties.                                                             *)
(***************************************************************************)
Dispatched(e) == last.op = "dispatch" /\ last.ev = e

\* C1: an event is popped and handled only when its due cycle is <= the
\* scheduler's cycle at that moment; no event is dispatched early.
C1_NoEarlyDispatch == last.op = "dispatch" => last.due <= last.at

\* a channel step was dispatched while a later entry stayed pending
C1_Witness ==
    /\ last.op = "dispatch"
    /\ last.ev.kind = "StepAudioChannel"
    /\ \E x \in event_queue : x.due > cycle

\* C2: when handle_events returns, no pending entry is due at or before the
\* current cycle, entries enqueued by handlers during the pass included.
C2_DrainedOnReturn ==
    (last.op = "return" /\ pc = "cpu") => \A x \in event_queue : x.due > cycle

\* handle_events returned from a pass that dispatched an entry which a
\* handler of that same pass had enqueued
C2_Witness == last.op = "return" /\ pc = "cpu" /\ pass.hit

\* C3: remove(e) takes out the pending entry equal to e by kind and payload
\* and nothing else: every other entry keeps its due cycle, the cycle
\* counter is unchanged, and with no such entry pending nothing changes.
C3_RemoveFrame ==
    [][last'.call = "remove" =>
         /\ ~Pending(event_queue', last'.cev)
         /\ \A x \in event_queue : x.ev # last'.cev => x \in event_queue'
         /\ event_queue' \subseteq event_queue
         /\ cycle' = cycle
         /\ (~Pending(event_queue, last'.cev) => event_queue' = event_queue)]_vars

\* remove took a pending channel step out of the queue
C3_Witness ==
    /\ last.call = "remove"
    /\ last.had
    /\ ~Pending(event_queue, last.cev)
    /\ Cardinality(event_queue) >= 3

\* C4: the queue holds at most one entry per event value, and after a
\* schedule call the event's single entry is due at cycle + delay, a stale
\* entry of an equal event having been displaced.
C4_OneEntryPerEvent ==
    /\ \A x, y \in event_queue : x.ev = y.ev => x = y
    /\ last.call = "schedule" =>
         /\ Pending(event_queue, last.cev)
         /\ DueOf(event_queue, last.cev) = last.at + last.delay

\* a channel step was re-scheduled while an equal step was still pending
C4_Witness ==
    /\ last.call = "schedule"
    /\ last.had
    /\ last.cev.kind = "StepAudioChannel"
    /\ Cardinality({x \in event_queue : x.ev = last.cev}) = 1

\* C5: whenever the dispatch loop inspects the queue, a GenerateAudioSample
\* entry is pending, so the queue is never found empty.
C5_HeartbeatPending ==
    pc = "drain" => Pending(event_queue, GenerateAudioSample)

\* the loop inspects the queue right after the heartbeat was handled, in a
\* run in which register writes were made
C5_Witness ==
    /\ pc = "drain"
    /\ Dispatched(GenerateAudioSample)
    /\ writes > 0
    /\ \E x \in event_queue : x.ev.kind = "StepAudioChannel"

\* C6: successive GenerateAudioSample due cycles differ by exactly
\* clocks_per_sample, whatever the clock advances and however late the
\* heartbeat is dispatched.
C6_FixedPeriod ==
    Dispatched(GenerateAudioSample) =>
        DueOf(event_queue, GenerateAudioSample) = last.due + ClocksPerSample

\* C7: after every GenerateAudioSample dispatch exactly one heartbeat is
\* pending, due strictly in the future; and while the clock keeps being
\* advanced, a pending heartbeat is dispatched again.
C7_HeartbeatNeverLost ==
    /\ [](Dispatched(GenerateAudioSample) =>
            /\ Cardinality({x \in event_queue : x.ev = GenerateAudioSample}) = 1
            /\ DueOf(event_queue, GenerateAudioSample) > cycle)
    /\ (/\ pc # "panic"
        /\ Pending(event_queue, GenerateAudioSample)
        /\ DueOf(event_queue, GenerateAudioSample) <= MaxCycle
        /\ ~Dispatched(GenerateAudioSample))
         ~> (Dispatched(GenerateAudioSample) \/ pc = "panic")

\* a heartbeat that an earlier heartbeat had re-armed was dispatched
C7_Witness ==
    /\ Dispatched(GenerateAudioSample)
    /\ last.due > ClocksPerSample
    /\ DueOf(event_queue, GenerateAudioSample) > cycle

\* C8: the cycle counter never decreases, and only handle_events and the
\* clock advance of a DMA run change it; register writes (schedule,
\* run_now, remove) leave it unchanged.
C8_CycleMonotone ==
    [][/\ cycle' >= cycle
       /\ cycle' # cycle =>
            \/ last'.op = "handle_events"
            \/ /\ last'.op = "dispatch"
               /\ last'.ev.kind \in {"DMA", "StartNextLine", "HBlank"}
               /\ dma_log' # <<>>]_vars

\* a dispatched DMA event advanced the clock
C8_Witness ==
    /\ last.op = "dispatch"
    /\ last.ev.kind = "DMA"
    /\ cycle > last.at
    /\ writes > 0

\* the DMA run of channel ch completed
Ran(ch) == Dispatched(EvDMA(ch)) /\ pc # "panic"

IncrementRun16(ch) ==
    /\ Ran(ch)
    /\ ~dma[ch].transfer_32
    /\ dma[ch].src_addr_ctrl = 0
    /\ dma[ch].dest_addr_ctrl = 0

\* C9 as claimed: a 16-bit increment/increment run of N units leaves
\* source_latch = latched source + 2N and destination_latch = latched
\* destination + 2N (mod 2^32), for every latched address.
C9_LatchesPlus2N ==
    \A ch \in DmaChannels : IncrementRun16(ch) =>
        /\ dma[ch].sad_latch = wrapping_add(dma[ch].sad, 2 * dma[ch].count_latch)
        /\ dma[ch].dad_latch = wrapping_add(dma[ch].dad, 2 * dma[ch].count_latch)

\* C9 as amended: the latches end at the latched addresses with bit 0
\* cleared, plus 2N (mod 2^32).
C9_AlignedLatchesPlus2N ==
    \A ch \in DmaChannels : IncrementRun16(ch) =>
        /\ dma[ch].sad_latch =
             wrapping_add(AlignDown(dma[ch].sad, 1), 2 * dma[ch].count_latch)
        /\ dma[ch].dad_latch =
             wrapping_add(AlignDown(dma[ch].dad, 1), 2 * dma[ch].count_latch)

\* a two-unit run from an odd source at the top of the address space
C9_Witness ==
    \E ch \in DmaChannels :
        /\ IncrementRun16(ch)
        /\ dma[ch].count_latch = 2
        /\ dma[ch].sad = U32(65535, 65535)
        /\ dma[ch].sad_latch = U32(0, 2)

ReloadRun(ch) == Ran(ch) /\ dma[ch].dest_addr_ctrl = 3

UnitBytes(c) == IF c.transfer_32 THEN 4 ELSE 2

\* the destination addresses of the writes of the last run, in order
WriteAddrs == [i \in 1..(Len(dma_log) \div 2) |-> dma_log[2 * i].addr]

\* C10 as claimed: a run with destination mode 3 writes to successively
\* increasing addresses from the latched destination and leaves
\* destination_latch equal to the latched destination, for every latched
\* destination address and both unit widths.
C10_DestReloaded ==
    \A ch \in DmaChannels : ReloadRun(ch) =>
        /\ dma[ch].dad_latch = dma[ch].dad
        /\ Len(WriteAddrs) = dma[ch].count_latch
        /\ \A i \in DOMAIN WriteAddrs :
             WriteAddrs[i] = wrapping_add(dma[ch].dad, (i - 1) * UnitBytes(dma[ch]))

\* C10 as amended: the writes walk forward by the unit size (mod 2^32) from
\* the latched destination with its alignment bits cleared, and
\* destination_latch is left at that aligned address.
C10_DestReloadedAligned ==
    \A ch \in DmaChannels : ReloadRun(ch) =>
        LET start == AlignDown(dma[ch].dad, UnitBytes(dma[ch]) - 1) IN
        /\ dma[ch].dad_latch = start
        /\ Len(WriteAddrs) = dma[ch].count_latch
        /\ \A i \in DOMAIN WriteAddrs :
             WriteAddrs[i] = wrapping_add(start, (i - 1) * UnitBytes(dma[ch]))

\* a two-unit 32-bit run to an unaligned destination whose writes walked on
C10_Witness ==
    \E ch \in DmaChannels :
        /\ ReloadRun(ch)
        /\ dma[ch].transfer_32
        /\ dma[ch].count_latch = 2
        /\ dma[ch].dad = U32(0, 65534)
        /\ WriteAddrs = <<U32(0, 65532), U32(1, 0)>>

\* the address of unit i (from 1) of a run that starts at `start`
UnitAddr(start, ctrl, unit, i) ==
    IF ctrl \in {0, 3} THEN wrapping_add(start, (i - 1) * unit)
    ELSE IF ctrl = 1 THEN wrapping_sub(start, (i - 1) * unit)
    ELSE start

\* C11: a completed DMA run with count N issues exactly N reads and N writes,
\* alternating read then write; read i comes from the i-th source address
\* and its value is written to the i-th destination address; with N = 0
\* nothing is read or written.
C11_ReadThenWrite ==
    \A ch \in DmaChannels : Ran(ch) =>
        LET c == dma[ch]
            mask == UnitBytes(c) - 1
        IN  /\ Len(dma_log) = 2 * c.count_latch
            /\ \A i \in 1..c.count_latch :
                 /\ dma_log[2 * i - 1].op = "read"
                 /\ dma_log[2 * i - 1].addr =
                      UnitAddr(AlignDown(c.sad, mask), c.src_addr_ctrl, UnitBytes(c), i)
                 /\ dma_log[2 * i].op = "write"
                 /\ dma_log[2 * i].addr =
                      UnitAddr(AlignDown(c.dad, mask), c.dest_addr_ctrl, UnitBytes(c), i)
                 /\ dma_log[2 * i].value = dma_log[2 * i - 1].value

\* a two-unit run that copied a unit it had itself written one step before
C11_Witness ==
    \E ch \in DmaChannels :
        /\ Ran(ch)
        /\ dma[ch].count_latch = 2
        /\ Len(dma_log) = 4
        /\ dma_log[3].addr = dma_log[2].addr
        /\ dma_log[3].value = dma_log[1].value
        /\ dma_log[1].addr # dma_log[2].addr

\* the access-time lookups of the logged accesses from position i on: the
\* two accesses of the first unit are non-sequential, all later sequential
RECURSIVE AccessSum(_, _)
AccessSum(log, i) ==
    IF i > Len(log) THEN 0
    ELSE AccessTime(IF i <= 2 THEN "N" ELSE "S", log[i].addr) + AccessSum(log, i + 1)

\* C12: a completed DMA run advances the global clock by exactly 2 plus the
\* sum of the source and destination access-time lookups of its N units,
\* the first unit's taken as non-sequential and the later ones' as
\* sequential.
C12_ClockCost ==
    \A ch \in DmaChannels : Ran(ch) => cycle = last.at + 2 + AccessSum(dma_log, 1)

\* a two-unit run cost 2 + (2 + 2) + (1 + 1) cycles
C12_Witness ==
    \E ch \in DmaChannels :
        /\ Ran(ch)
        /\ dma[ch].count_latch = 2
        /\ dma[ch].sad_latch # dma[ch].sad
        /\ cycle = last.at + 8

\* C13: a DMA run that completes with IRQ-on-complete set ORs the
\* DMA-complete bit of its channel number into the request masks of both CPU
\* contexts, whichever controller owns the channel, and clears no pending
\* bit; with IRQ-on-complete clear it leaves both masks unchanged.
C13_IrqBothContexts ==
    [][\A ch \in DmaChannels :
         (last'.op = "dispatch" /\ last'.ev = EvDMA(ch) /\ pc' # "panic") =>
            \A i \in {0, 1} :
                interrupts'[i] = IF dma[ch].irq
                                 THEN interrupts[i] \cup {DmaIrq(ch[2])}
                                 ELSE interrupts[i]]_vars

\* a run of the ARM7 controller's channel 1 raised DMA1 in both contexts
\* beside the request already pending
C13_Witness ==
    /\ Ran(<<0, 1>>)
    /\ dma[<<0, 1>>].irq
    /\ interrupts[0] = {"VBLANK", "DMA1"}
    /\ interrupts[1] = {"DMA1"}

LineDispatched == last.op = "dispatch" /\ last.ev = StartNextLine /\ pc # "panic"

\* C14: a dispatched StartNextLine that crosses into vertical blank handles
\* VBlank exactly once within that dispatch (the VBlank-timed DMA channel
\* runs once) and raises VBLANK for a context iff its display-status
\* register enables the VBlank interrupt; a line that does not cross runs
\* no VBlank DMA and raises no VBLANK.
C14_VBlankOnce ==
    [][LineDispatched' =>
         IF vcount' = VBlankLine
         THEN /\ \E ch \in DmaChannels :
                   /\ dma[ch].active /\ dma[ch].start_timing = "VBlank"
                   /\ Len(dma_log') = 2 * dma[ch].count_latch
                   /\ cycle' = cycle + 2 + AccessSum(dma_log', 1)
              /\ \A i \in {0, 1} :
                   "VBLANK" \in interrupts'[i] <=>
                       \/ "VBLANK_IRQ_ENABLE" \in dispstat[i].flags
                       \/ "VBLANK" \in interrupts[i]
         ELSE /\ dma_log' = <<>>
              /\ cycle' = cycle
              /\ \A i \in {0, 1} :
                   "VBLANK" \in interrupts'[i] <=> "VBLANK" \in interrupts[i]]_vars

\* the line crossed into vertical blank: one VBlank DMA unit was moved and
\* VBLANK is pending for the context that enables it and not for the other
C14_Witness ==
    /\ LineDispatched
    /\ vcount = VBlankLine
    /\ Len(dma_log) = 2
    /\ "VBLANK" \in interrupts[0]
    /\ "VBLANK" \notin interrupts[1]

\* C20: when StartNextLine is dispatched, the vertical-counter-match bit is
\* raised for every context whose configured match line equals the advanced
\* line counter, each against its own register, and is not raised for a
\* context whose match line differs.
C20_VCountMatch ==
    [][LineDispatched' =>
         \A i \in {0, 1} :
            IF vcount' = dispstat[i].vcount_setting
            THEN "VCOUNTER_MATCH" \in interrupts'[i]
            ELSE "VCOUNTER_MATCH" \in interrupts'[i]
                    <=> "VCOUNTER_MATCH" \in interrupts[i]]_vars

\* the step of `spec` just dispatched consumed the channel's last bytes
\* while the channel was in repeat mode `mode`
Exhausting(spec, mode) ==
    /\ last'.op = "dispatch"
    /\ last'.ev = StepAudioChannel(spec)
    /\ pc' # "panic"
    /\ chan[spec].repeat_mode = mode
    /\ chan[spec].num_bytes_left = UnitSize(chan[spec].format)

C16_ManualStops ==
    [][\A spec \in ChannelSpecs : Exhausting(spec, Manual) =>
         /\ ~chan'[spec].busy
         /\ chan'[spec].last_sample = Some(0)
         /\ chan'[spec].addr = chan[spec].addr + UnitSize(chan[spec].format)
         /\ chan'[spec].num_bytes_left = 0]_vars

\* a Manual channel that had been started ran out in the step just dispatched
C16_Witness ==
    \E spec \in ChannelSpecs :
        /\ Dispatched(StepAudioChannel(spec))
        /\ chan[spec].repeat_mode = Manual
        /\ chan[spec].last_sample = Some(0)
        /\ ~chan[spec].busy
        /\ chan[spec].addr = chan[spec].src_addr + 4
        /\ chan[spec].num_bytes_left = 0

\* C17: in every reachable state the bytes a channel has left are a
\* non-negative multiple of the unit size of its configured format.
C17_BytesLeftMultiple ==
    \A spec \in ChannelSpecs :
        /\ chan[spec].num_bytes_left >= 0
        /\ chan[spec].num_bytes_left % UnitSize(chan[spec].format) = 0

\* C19: whenever a channel is not busy, no StepAudioChannel event of that
\* channel is pending.
C19_IdleNotPending ==
    \A spec \in ChannelSpecs :
        ~chan[spec].busy => ~Pending(event_queue, StepAudioChannel(spec))

\* C18: every call of handle_events terminates: once the drain loop is
\* entered, it is left after finitely many dispatches (or the run panics).
C18_DrainTerminates == (pc = "drain") ~> (pc \in {"cpu", "panic"})

\* handle_events returned from a pass in which DMA runs had pushed the clock
\* past every cycle the CPU asked for and made re-armed events due again
C18_Witness ==
    /\ last.op = "return"
    /\ pc = "cpu"
    /\ pass.hit
    /\ cycle > MaxCycle
    /\ \E ch \in DmaChannels : dma[ch].active /\ dma[ch].start_timing = "HBlank"

C22_Mode3Aborts ==
    \A ch \in DmaChannels :
        (Dispatched(EvDMA(ch)) /\ dma[ch].src_addr_ctrl = 3) =>
            /\ pc = "panic"
            /\ cycle = last.at
            /\ DmaIrq(ch[2]) \notin interrupts[0] \cup interrupts[1]

\* the step just dispatched consumed the last bytes of a OneShot stream
OneShotExhausting(spec) ==
    /\ last'.op = "dispatch"
    /\ last'.ev = StepAudioChannel(spec)
    /\ pc' # "panic"
    /\ chan[spec].repeat_mode = OneShot
    /\ chan[spec].format \in {PCM8, PCM16}
    /\ chan[spec].num_bytes_left = UnitSize(chan[spec].format)

\* C23: in OneShot mode the step that consumes the last remaining bytes
\* leaves the channel non-busy with its cursor not rewound, and the held
\* last sample is the sample decoded from the last unit fetched.
C23_OneShotHoldsFinal ==
    [][\A spec \in ChannelSpecs : OneShotExhausting(spec) =>
          /\ ~chan'[spec].busy
          /\ chan'[spec].addr = chan[spec].addr + UnitSize(chan[spec].format)
          /\ chan'[spec].num_bytes_left = 0
          /\ chan'[spec].last_sample = Some(chan'[spec].sample)]_vars

\* the store just made changed the channel's timer reload, so its last
\* Channel::schedule call was made with the reload the channel now holds
TimerStored(spec) ==
    /\ last'.op = "write"
    /\ chan'[spec].timer_val # chan[spec].timer_val

\* the control store just made took the channel from idle to busy
Enabled(spec) ==
    /\ last'.op = "write"
    /\ ~chan[spec].busy
    /\ chan'[spec].busy

\* C24: Channel::schedule with a reload t # 0 schedules the channel's step
\* with delay (65536 - t) mod 65536, which lies in 1..65535 for every t
\* (0x8000 included), so a re-arm never has delay 0; with t = 0 it
\* schedules nothing and leaves the queue as it was.
C24_TimerDelay ==
    [][\A spec \in ChannelSpecs :
         LET t == chan'[spec].timer_val
             e == StepAudioChannel(spec)
         IN
         /\ ((TimerStored(spec) \/ Enabled(spec)) /\ t # 0) =>
                /\ pc' # "panic"
                /\ last'.call = "schedule"
                /\ last'.cev = e
                /\ last'.delay = (65536 - t) % 65536
                /\ last'.delay \in 1..65535
                /\ Entry(e, cycle + last'.delay) \in event_queue'
         /\ (last'.op = "dispatch" /\ last'.ev = e /\ last'.call = "schedule") =>
                /\ last'.delay = (65536 - t) % 65536
                /\ last'.delay \in 1..65535
                /\ Entry(e, cycle + last'.delay) \in event_queue'
         /\ (Enabled(spec) /\ t = 0) => event_queue' = event_queue]_vars

\* the store just made addressed the channel's control byte
ControlStored(spec) ==
    /\ last'.op = "write"
    /\ last'.reg = 3

\* C25 as claimed: a control write taking busy from false to true clears the
\* held last sample and leaves the channel's step event pending; one that
\* leaves busy true neither re-arms nor moves the pending step event; one
\* that leaves busy false clears the held last sample and removes the
\* pending step event.
C25_ControlWrite ==
    [][\A spec \in AudioSpecs : ControlStored(spec) =>
         LET e == StepAudioChannel(spec) IN
         /\ (~chan[spec].busy /\ chan'[spec].busy) =>
                /\ chan'[spec].last_sample = None
                /\ Pending(event_queue', e)
         /\ (chan[spec].busy /\ chan'[spec].busy) => event_queue' = event_queue
         /\ ~chan'[spec].busy =>
                /\ chan'[spec].last_sample = None
                /\ ~Pending(event_queue', e)]_vars

\* C25 as amended: the enabling write arms the first step only when the
\* timer reload is not 0 (at cycle + delay), leaves the queue as it was
\* when the reload is 0, and arms nothing when the negation of the reload
\* aborts the write; the other two cases are as claimed.
C25_ControlWriteReload ==
    [][\A spec \in AudioSpecs : ControlStored(spec) =>
         LET e == StepAudioChannel(spec)
             t == chan'[spec].timer_val
         IN
         /\ (~chan[spec].busy /\ chan'[spec].busy) =>
                /\ chan'[spec].last_sample = None
                /\ (t # 0 /\ pc' # "panic") =>
                       Entry(e, cycle + TimerDelay(t)) \in event_queue'
                /\ (t = 0 \/ pc' = "panic") => event_queue' = event_queue
                /\ pc' = "panic" => t = 32768
         /\ (chan[spec].busy /\ chan'[spec].busy) =>
                event_queue' = event_queue /\ pc' # "panic"
         /\ ~chan'[spec].busy =>
                /\ chan'[spec].last_sample = None
                /\ ~Pending(event_queue', e)
                /\ pc' # "panic"]_vars

\* a stopped channel holding a last sample was enabled again and its
\* first step is pending
C25_Witness ==
    \E spec \in AudioSpecs :
        /\ last.op = "write"
        /\ last.reg = 3
        /\ last.call = "schedule"
        /\ last.at > 0
        /\ chan[spec].busy
        /\ chan[spec].last_sample = None
        /\ Entry(StepAudioChannel(spec), last.at + TimerDelay(chan[spec].timer_val))
               \in event_queue

\* the HBlank-timed channels that are active
HBlankChannels == {ch \in DmaChannels : dma[ch].active /\ dma[ch].start_timing = "HBlank"}

\* C26: on each HBlank dispatch the HBlank-timed DMA channels run only at
\* an HBlank-triggering instant (a line before the vertical blank), and
\* HBLANK is ORed into a context's requests iff that context's
\* display-status register enables the HBlank interrupt, whatever the other
\* context's register holds and whether or not a DMA ran.
C26_HBlankDispatch ==
    [][(last'.op = "dispatch" /\ last'.ev = HBlank) =>
         /\ pc' # "panic"
         /\ dma_log' # <<>> <=> (vcount < VBlankLine /\ HBlankChannels # {})
         /\ \A ch \in DmaChannels \ HBlankChannels : dma'[ch] = dma[ch]
         /\ \A i \in {0, 1} :
              interrupts'[i] =
                  interrupts[i]
                  \cup (IF "HBLANK_IRQ_ENABLE" \in dispstat[i].flags
                        THEN {"HBLANK"} ELSE {})
                  \cup (IF vcount < VBlankLine
                        THEN {DmaIrq(ch[2]) : ch \in {h \in HBlankChannels : dma[h].irq}}
                        ELSE {})]_vars

\* an HBlank dispatch ran the HBlank DMA and raised HBLANK for the ARM7
\* context, which enables it, and not for the ARM9 context, which does not
C26_Witness ==
    /\ last.op = "dispatch"
    /\ last.ev = HBlank
    /\ dma_log # <<>>
    /\ "HBLANK_IRQ_ENABLE" \in dispstat[0].flags
    /\ "HBLANK_IRQ_ENABLE" \notin dispstat[1].flags
    /\ "HBLANK" \in interrupts[0]
    /\ "HBLANK" \notin interrupts[1]

\* C27: dispatching the step of a channel of any kind whose format is not
\* PCM8, PCM16 or ADPCM aborts: the cursor, the bytes left and the live
\* sample are as before, no step is re-armed, and the handler never
\* completes.
C27_UnsupportedFormatAborts ==
    [][\A spec \in KindSpecs :
         (/\ last'.op = "dispatch"
          /\ last'.ev = StepAudioChannel(spec)
          /\ chan[spec].format \notin {PCM8, PCM16, ADPCM}) =>
            /\ pc' = "panic"
            /\ chan' = chan
            /\ ~Pending(event_queue', StepAudioChannel(spec))
            /\ event_queue' \subseteq event_queue
            /\ last'.call = "none"]_vars

\* a noise channel that was stepping as PCM8 had its format changed and
\* aborted at its next step, with its cursor where the last step left it
C27_Witness ==
    \E spec \in KindSpecs :
        /\ spec[1] = 2
        /\ last.op = "dispatch"
        /\ last.ev = StepAudioChannel(spec)
        /\ chan[spec].format = PSGNoise
        /\ chan[spec].addr > 0
        /\ pc = "panic"

\* addr lies in bank i's LCDC range
InLcdcRange(i, addr) ==
    /\ LCDC_ADDRESSES[i + 1] <= addr
    /\ addr < LCDC_ADDRESSES[i + 1] + BANKS_LEN[i + 1]

\* per bank: its first byte, the last byte of its first chunk, the first
\* byte of its second chunk (or of what follows a one-chunk bank), its last
\* byte and the byte after it; and the byte before bank 0
ProbeAddrs ==
    UNION {{LCDC_ADDRESSES[i + 1],
            LCDC_ADDRESSES[i + 1] + MAPPING_LEN - 1,
            LCDC_ADDRESSES[i + 1] + MAPPING_LEN,
            LCDC_ADDRESSES[i + 1] + BANKS_LEN[i + 1] - 1,
            LCDC_ADDRESSES[i + 1] + BANKS_LEN[i + 1]} : i \in 0..8}
    \cup {LCDC_ADDRESSES[1] - 1}

\* lcdc_enabled follows the control registers, and get_mem returns bank i
\* with the offset into it exactly for the addresses of an enabled bank i
LcdcMapped(v) ==
    /\ \A i \in 0..8 :
          /\ v.lcdc_enabled[i] <=> v.cnts[i].enabled
          /\ get_lcdc_bank(v, i) = IF v.cnts[i].enabled THEN Some(i) ELSE None
    /\ \A addr \in ProbeAddrs :
          LET owners == {i \in 0..8 : v.cnts[i].enabled /\ InLcdcRange(i, addr)} IN
          IF owners = {} THEN get_mem(v, addr) = None
          ELSE \E i \in owners :
                 /\ get_mem(v, addr) =
                        Some([bank |-> i, offset |-> addr - LCDC_ADDRESSES[i + 1]])
                 /\ addr - LCDC_ADDRESSES[i + 1] < BANKS_LEN[i + 1]

\* the write to one bank left every other bank's control, flag and
\* mappings as they were
OthersKept ==
    LET index == last'.reg IN
    /\ \A i \in 0..8 \ {index} :
          /\ vram'.cnts[i] = vram.cnts[i]
          /\ vram'.lcdc_enabled[i] = vram.lcdc_enabled[i]
    /\ \A a \in DOMAIN vram.mappings \cup DOMAIN vram'.mappings :
          ~InLcdcRange(index, a) =>
             /\ a \in DOMAIN vram.mappings
             /\ a \in DOMAIN vram'.mappings
             /\ vram'.mappings[a] = vram.mappings[a]

\* C28: after any sequence of write_vram_cnt calls in LCDC mode (mst 0),
\* lcdc_enabled[i] holds iff bank i's control is enabled, get_mem(addr)
\* returns bank i with offset addr - LCDC_ADDRESSES[i] < BANKS_LEN[i] iff
\* addr lies in the LCDC range of an enabled bank i and is unmapped
\* otherwise, and a write to one bank never adds or removes a mapping of
\* another bank.
C28_LcdcMapping ==
    [][/\ LcdcMapped(vram)
       /\ LcdcMapped(vram')
       /\ pc' # "panic"
       /\ last'.op = "write_vram_cnt" => OthersKept]_vars

\* bank 0 was enabled and disabled again while bank 1 stayed mapped
C28_Witness ==
    /\ last.op = "write_vram_cnt"
    /\ last.reg = 0
    /\ ~vram.cnts[0].enabled
    /\ vram.mapping_ranges[0].end > 0
    /\ vram.cnts[1].enabled
    /\ get_mem(vram, LCDC_ADDRESSES[1]) = None
    /\ get_mem(vram, LCDC_ADDRESSES[2] + MAPPING_LEN) =
           Some([bank |-> 1, offset |-> MAPPING_LEN])

\* C29: for every bank and written byte, in any sequence of writes,
\* write_vram_cnt never reaches an unreachable!() branch and never fails an
\* lcdc_enabled assertion: an enabled mode that survives the bank's mask is
\* the LCDC mode or one of the modes 1..5 flagged as unimplemented.
C29_NoUnreachable == vram_abort \notin {"unreachable", "assert"}

\* C30: after any sequence of WRAMCNT writes the offset and mask fields are
\* those of WRAMCNT::new(value & 3), whatever was written before.
C30_FieldsOfValue ==
    /\ wramcnt.value \in 0..3
    /\ wramcnt = WRAMCNT_new(wramcnt.value)

====
